---- MODULE Spec2Model ----
(***************************************************************************)
(* Model of the email classifier back end (FastAPI application):          *)
(*   app/services/ai_classifier.py      EmailClassifierService            *)
(*   app/services/openai_classifier.py  OpenAIEmailClassifierService      *)
(*   app/services/data_storage.py       DataStorageService                *)
(*   app/services/file_processor.py     truncate_text_for_analysis        *)
(*   app/api/endpoints.py               the /analyze, /history handlers   *)
(*                                                                         *)
(* A text is a sequence of characters (one-character strings), so that    *)
(* lower-casing, the regular expressions, str.count and the "in" operator *)
(* are computed as Python computes them.  A confidence is an integer      *)
(* number of thousandths (0.6 is 600), so that round(x, 2) is a real      *)
(* operation.  An optional value (file_name) is a sequence of length 0    *)
(* (None) or 1.                                                            *)
(***************************************************************************)
EXTENDS Integers, Sequences, FiniteSets, TLC

VARIABLES settings, is_available, analyses, history, stats, next_id, last, requests,
          stored

vars == <<settings, is_available, analyses, history, stats, next_id, last, requests,
          stored>>

(***************************************************************************)
(* Characters.                                                             *)
(***************************************************************************)
LowerLetters ==
    {"a","b","c","d","e","f","g","h","i","j","k","l","m","n","o","p","q","r",
     "s","t","u","v","w","x","y","z","á","ã","ç","é","ê","í","ó","õ","ú"}

UpperLetters == {"A","E","G","I","M","N","O","P","R","T","U","Ç","Ã"}

\* str.lower() on one character
ToLower(c) ==
    CASE c = "A" -> "a" [] c = "E" -> "e" [] c = "G" -> "g" [] c = "I" -> "i"
      [] c = "M" -> "m"
      [] c = "N" -> "n"
      [] c = "O" -> "o" [] c = "P" -> "p" [] c = "R" -> "r" [] c = "T" -> "t"
      [] c = "U" -> "u" [] c = "Ç" -> "ç" [] c = "Ã" -> "ã"
      [] OTHER -> c

\* the class \w of Python's re on str: letters, digits and the underscore
IsWordChar(c) == c \in LowerLetters \cup UpperLetters \cup {"0","1","2","_"}

\* the class \s
IsSpace(c) == c \in {" ", "\n", "\t"}

Lower(text) == [i \in 1..Len(text) |-> ToLower(text[i])]

(***************************************************************************)
(* Python string operations on character sequences.                        *)
(***************************************************************************)
StartsAt(text, w, i) ==
    /\ i >= 1
    /\ i + Len(w) - 1 <= Len(text)
    /\ SubSeq(text, i, i + Len(w) - 1) = w

\* the least and the greatest element of a non-empty set of integers
Least(S) == CHOOSE a \in S : \A i \in S : a <= i

Greatest(S) == CHOOSE b \in S : \A i \in S : b >= i

\* the first element of S, or d when S is empty
LeastOr(S, d) == IF S = {} THEN d ELSE Least(S)

\* text.count(w): the number of non-overlapping occurrences, left to right.
\* j is the first occurrence from i on (0 if there is none); the search
\* goes on after it.
RECURSIVE CountFrom(_, _, _)
RECURSIVE CountAfter(_, _, _)
CountAfter(text, w, j) ==
    IF j = 0 THEN 0 ELSE 1 + CountFrom(text, w, j + Len(w))

CountFrom(text, w, i) ==
    CountAfter(text, w, LeastOr({j \in i..Len(text) : StartsAt(text, w, j)}, 0))

Count(text, w) == CountFrom(text, w, 1)

\* w in text
Contains(text, w) == \E i \in 1..Len(text) : StartsAt(text, w, i)

\* len(text.split()): the number of maximal runs of non-whitespace
WordCount(text) ==
    Cardinality({i \in 1..Len(text) :
                    /\ ~IsSpace(text[i])
                    /\ (i = 1 \/ IsSpace(text[i - 1]))})

\* text[a:b] of the positions of S (the empty text when S is empty)
Span(text, S) == IF S = {} THEN <<>> ELSE SubSeq(text, Least(S), Greatest(S))

\* text.strip(): without its leading and trailing whitespace
Strip(text) == Span(text, {i \in 1..Len(text) : ~IsSpace(text[i])})

\* re.sub(r'\s+', ' ', text): every run of whitespace becomes one space
\* (the first character of a run stays, as a space; the others go)
CollapseSpaces(text) ==
    SelectSeq([i \in 1..Len(text) |->
                  IF ~IsSpace(text[i]) THEN text[i]
                  ELSE IF i = 1 \/ ~IsSpace(text[i - 1]) THEN " "
                  ELSE ""],
              LAMBDA c : c # "")

(***************************************************************************)
(* Regular expressions of the pattern tables.  A pattern is a record:     *)
(*   kind "word":  \b(alt1|alt2|...)\b                                    *)
(*   kind "modal": \b(alt1|alt2|...)\s+\w+                                *)
(*   kind "stem":  \b(alt1|alt2|...)\w*                                   *)
(*   kind "lit":   alt1 (a literal, no boundary)                           *)
(* MatchEnd is the position after the match that starts at i, 0 if there  *)
(* is none; alternatives are tried in order, with backtracking into the   *)
(* next alternative when what follows the group fails.                     *)
(***************************************************************************)
WordAt(text, p) == p >= 1 /\ p <= Len(text) /\ IsWordChar(text[p])

\* \b between positions p - 1 and p
Boundary(text, p) == WordAt(text, p - 1) # WordAt(text, p)

\* the number of consecutive characters from p on that are whitespace
\* (space) or word characters (otherwise)
RunLen(text, p, space) ==
    LeastOr({q \in p..Len(text) :
                IF space THEN ~IsSpace(text[q]) ELSE ~IsWordChar(text[q])},
            Len(text) + 1) - p

\* \s+\w+ from e on, where s whitespace characters follow e
ModalTail(text, e, s) ==
    IF s >= 1 /\ RunLen(text, e + s, FALSE) >= 1
    THEN e + s + RunLen(text, e + s, FALSE)
    ELSE 0

\* what follows the group, which ends before e
AfterGroup(text, kind, e) ==
    CASE kind = "lit" -> e
      [] kind = "word" -> IF Boundary(text, e) THEN e ELSE 0
      [] kind = "stem" -> e + RunLen(text, e, FALSE)
      [] kind = "modal" -> ModalTail(text, e, RunLen(text, e, TRUE))

AltEnd(text, pat, alt, i) ==
    IF StartsAt(text, alt, i) THEN AfterGroup(text, pat.kind, i + Len(alt)) ELSE 0

\* the first positive element of a sequence of numbers, 0 if there is none
FirstPositive(ends) ==
    IF \A k \in 1..Len(ends) : ends[k] <= 0 THEN 0
    ELSE ends[Least({k \in 1..Len(ends) : ends[k] > 0})]

MatchEnd(text, pat, i) ==
    IF pat.kind # "lit" /\ ~Boundary(text, i) THEN 0
    ELSE FirstPositive([k \in 1..Len(pat.alts) |-> AltEnd(text, pat, pat.alts[k], i)])

\* len(re.findall(pattern, text, re.IGNORECASE)): non-overlapping matches,
\* scanned left to right.  j is the first position from i on where the
\* pattern matches (0 if there is none); the scan goes on at the match's end.
RECURSIVE FindAllFrom(_, _, _)
RECURSIVE FindAllAfter(_, _, _)
FindAllAfter(text, pat, j) ==
    IF j = 0 THEN 0 ELSE 1 + FindAllFrom(text, pat, MatchEnd(text, pat, j))

FindAllFrom(text, pat, i) ==
    FindAllAfter(text, pat, LeastOr({j \in i..Len(text) : MatchEnd(text, pat, j) > 0}, 0))

FindAllCount(text, pat) == FindAllFrom(Lower(text), pat, 1)

(***************************************************************************)
(* EmailClassifierService: the lexicon and pattern tables (__init__).      *)
(***************************************************************************)
productive_keywords ==
    << [category |-> "action", keywords |->
         << <<"a","ç","ã","o">>,
            <<"f","a","z","e","r">>,
            <<"i","m","p","l","e","m","e","n","t","a","r">>,
            <<"d","e","s","e","n","v","o","l","v","e","r">>,
            <<"c","r","i","a","r">>,
            <<"m","o","d","i","f","i","c","a","r">>,
            <<"a","l","t","e","r","a","r">>,
            <<"c","o","r","r","i","g","i","r">> >>],
       [category |-> "urgency", keywords |->
         << <<"u","r","g","e","n","t","e">>,
            <<"i","m","p","o","r","t","a","n","t","e">>,
            <<"p","r","i","o","r","i","d","a","d","e">>,
            <<"d","e","a","d","l","i","n","e">>,
            <<"p","r","a","z","o">>,
            <<"i","m","e","d","i","a","t","o">> >>],
       [category |-> "request", keywords |->
         << <<"s","o","l","i","c","i","t","o">>,
            <<"p","r","e","c","i","s","o">>,
            <<"n","e","c","e","s","s","á","r","i","o">>,
            <<"r","e","q","u","e","r">>,
            <<"p","e","d","i","d","o">>,
            <<"s","o","l","i","c","i","t","a","ç","ã","o">> >>],
       [category |-> "meeting", keywords |->
         << <<"r","e","u","n","i","ã","o">>,
            <<"m","e","e","t","i","n","g">>,
            <<"e","n","c","o","n","t","r","o">>,
            <<"a","g","e","n","d","a">>,
            <<"a","g","e","n","d","a","m","e","n","t","o">>,
            <<"h","o","r","á","r","i","o">> >>],
       [category |-> "decision", keywords |->
         << <<"d","e","c","i","s","ã","o">>,
            <<"a","p","r","o","v","a","r">>,
            <<"a","u","t","o","r","i","z","a","r">>,
            <<"c","o","n","f","i","r","m","a","r">>,
            <<"v","a","l","i","d","a","r">>,
            <<"a","c","e","i","t","a","r">> >>],
       [category |-> "problem", keywords |->
         << <<"p","r","o","b","l","e","m","a">>,
            <<"e","r","r","o">>,
            <<"b","u","g">>,
            <<"f","a","l","h","a">>,
            <<"d","e","f","e","i","t","o">>,
            <<"i","s","s","u","e">> >>],
       [category |-> "question", keywords |->
         << <<"p","e","r","g","u","n","t","a">>,
            <<"d","ú","v","i","d","a">>,
            <<"q","u","e","s","t","ã","o">>,
            <<"e","s","c","l","a","r","e","c","i","m","e","n","t","o">>,
            <<"c","o","m","o">>,
            <<"q","u","a","n","d","o">>,
            <<"o","n","d","e">> >>],
       [category |-> "response_needed", keywords |->
         << <<"r","e","s","p","o","s","t","a">>,
            <<"r","e","s","p","o","n","d","e","r">>,
            <<"r","e","t","o","r","n","o">>,
            <<"f","e","e","d","b","a","c","k">>,
            <<"c","o","n","f","i","r","m","a","ç","ã","o">> >>] >>

unproductive_keywords ==
    << [category |-> "courtesy", keywords |->
         << <<"o","b","r","i","g","a","d","o">>,
            <<"p","a","r","a","b","é","n","s">>,
            <<"f","e","l","i","c","i","t","a","ç","õ","e","s">>,
            <<"s","u","c","e","s","s","o">>,
            <<"g","r","a","t","i","d","ã","o">> >>],
       [category |-> "informational", keywords |->
         << <<"i","n","f","o","r","m","a","ç","ã","o">>,
            <<"c","o","m","u","n","i","c","a","d","o">>,
            <<"a","v","i","s","o">>,
            <<"n","o","t","i","f","i","c","a","ç","ã","o">>,
            <<"a","t","u","a","l","i","z","a","ç","ã","o">> >>],
       [category |-> "social", keywords |->
         << <<"a","n","i","v","e","r","s","á","r","i","o">>,
            <<"f","e","s","t","a">>,
            <<"e","v","e","n","t","o"," ","s","o","c","i","a","l">>,
            <<"c","o","n","f","r","a","t","e","r","n","i","z","a","ç","ã","o">> >>],
       [category |-> "automated", keywords |->
         << <<"a","u","t","o","m","á","t","i","c","o">>,
            <<"s","i","s","t","e","m","a">>,
            <<"n","e","w","s","l","e","t","t","e","r">>,
            <<"b","o","l","e","t","i","m">>,
            <<"r","e","l","a","t","ó","r","i","o"," ","a","u","t","o","m","á","t","i","c","o">> >>],
       [category |-> "fyi", keywords |->
         << <<"p","a","r","a"," ","c","o","n","h","e","c","i","m","e","n","t","o">>,
            <<"f","y","i">>,
            <<"i","n","f","o","r","m","a","t","i","v","o">>,
            <<"a","p","e","n","a","s"," ","i","n","f","o","r","m","a","n","d","o">> >>] >>

\* r'\b(quando|até quando|prazo|deadline)\b', r'\b(pode|poderia|consegue)\s+\w+',
\* r'\?', r'\b(solicito|preciso|necessário)\b', r'\b(urgente|importante|prioridade)\b'
productive_patterns ==
    << [kind |-> "word", alts |->
          <<<<"q","u","a","n","d","o">>, <<"a","t","é"," ","q","u","a","n","d","o">>, <<"p","r","a","z","o">>, <<"d","e","a","d","l","i","n","e">>>>],
       [kind |-> "modal", alts |->
          <<<<"p","o","d","e">>, <<"p","o","d","e","r","i","a">>, <<"c","o","n","s","e","g","u","e">>>>],
       [kind |-> "lit", alts |->
          <<<<"?">>>>],
       [kind |-> "word", alts |->
          <<<<"s","o","l","i","c","i","t","o">>, <<"p","r","e","c","i","s","o">>, <<"n","e","c","e","s","s","á","r","i","o">>>>],
       [kind |-> "word", alts |->
          <<<<"u","r","g","e","n","t","e">>, <<"i","m","p","o","r","t","a","n","t","e">>, <<"p","r","i","o","r","i","d","a","d","e">>>>] >>

\* r'\b(obrigad[oa]|agradec)\w*', r'\b(parabéns|felicitações)\b',
\* r'\b(para conhecimento|fyi)\b', r'\b(newsletter|boletim)\b'
unproductive_patterns ==
    << [kind |-> "stem", alts |->
          <<<<"o","b","r","i","g","a","d","o">>, <<"o","b","r","i","g","a","d","a">>, <<"a","g","r","a","d","e","c">>>>],
       [kind |-> "word", alts |->
          <<<<"p","a","r","a","b","é","n","s">>, <<"f","e","l","i","c","i","t","a","ç","õ","e","s">>>>],
       [kind |-> "word", alts |->
          <<<<"p","a","r","a"," ","c","o","n","h","e","c","i","m","e","n","t","o">>, <<"f","y","i">>>>],
       [kind |-> "word", alts |->
          <<<<"n","e","w","s","l","e","t","t","e","r">>, <<"b","o","l","e","t","i","m">>>>] >>

(***************************************************************************)
(* OpenAIEmailClassifierService.generate_fallback_response: the indicator  *)
(* words of the simplified heuristic.                                       *)
(***************************************************************************)
productive_indicators ==
    << <<"s","o","l","i","c","i","t","o">>,
       <<"p","r","e","c","i","s","o">>,
       <<"p","o","d","e">>,
       <<"p","o","d","e","r","i","a">>,
       <<"q","u","a","n","d","o">>,
       <<"p","r","a","z","o">>,
       <<"d","e","a","d","l","i","n","e">>,
       <<"u","r","g","e","n","t","e">>,
       <<"i","m","p","o","r","t","a","n","t","e">>,
       <<"r","e","u","n","i","ã","o">>,
       <<"m","e","e","t","i","n","g">>,
       <<"p","r","o","j","e","t","o">>,
       <<"t","a","r","e","f","a">>,
       <<"p","r","o","b","l","e","m","a">>,
       <<"e","r","r","o">>,
       <<"b","u","g">>,
       <<"a","p","r","o","v","a","ç","ã","o">> >>

unproductive_indicators ==
    << <<"o","b","r","i","g","a","d","o">>,
       <<"o","b","r","i","g","a","d","a">>,
       <<"p","a","r","a","b","é","n","s">>,
       <<"f","e","l","i","c","i","t","a","ç","õ","e","s">>,
       <<"i","n","f","o","r","m","a","ç","ã","o">>,
       <<"c","o","m","u","n","i","c","a","d","o">>,
       <<"f","y","i">>,
       <<"n","e","w","s","l","e","t","t","e","r">>,
       <<"b","o","l","e","t","i","m">> >>

(***************************************************************************)
(* Arithmetic helpers.                                                      *)
(***************************************************************************)
Min(a, b) == IF a <= b THEN a ELSE b

Max(a, b) == IF a >= b THEN a ELSE b

RECURSIVE SumSeq(_)
SumSeq(s) == IF s = <<>> THEN 0 ELSE Head(s) + SumSeq(Tail(s))

\* round(x, 2) of a confidence in thousandths: the nearest hundredth.  The
\* inputs of the model never lie halfway between two hundredths.
Round2(m) == ((m + 5) \div 10) * 10

(***************************************************************************)
(* EmailClassifierService (ai_classifier.py).                               *)
(***************************************************************************)
PRODUCTIVE == "productive"

UNPRODUCTIVE == "unproductive"

\* re.sub(r'[^\w\s\?\!]', ' ', text.lower()); re.sub(r'\s+', ' ', text).strip()
KeepChar(c) == IF IsWordChar(c) \/ IsSpace(c) \/ c \in {"?", "!"} THEN c ELSE " "

preprocess_text(text) ==
    Strip(CollapseSpaces([i \in 1..Len(text) |-> KeepChar(ToLower(text[i]))]))

\* a faulty weighting: every category counts 2 per occurrence
ProductiveWeightUniform(category) == 2

\* the weight of one occurrence of a keyword of the category
ProductiveWeight(category) ==
    IF category \in {"urgency", "action", "request"} THEN 3 ELSE 2

UnproductiveWeight(category) ==
    IF category \in {"courtesy", "automated"} THEN 3 ELSE 2

calculate_keyword_score(text) ==
    [productive |->
        SumSeq([c \in 1..Len(productive_keywords) |->
            SumSeq([k \in 1..Len(productive_keywords[c].keywords) |->
                Count(text, productive_keywords[c].keywords[k])
                    * ProductiveWeight(productive_keywords[c].category)])]),
     unproductive |->
        SumSeq([c \in 1..Len(unproductive_keywords) |->
            SumSeq([k \in 1..Len(unproductive_keywords[c].keywords) |->
                Count(text, unproductive_keywords[c].keywords[k])
                    * UnproductiveWeight(unproductive_keywords[c].category)])])]

\* a faulty pattern score that counts a match once instead of twice
calculate_pattern_score_single(text) ==
    [productive |->
        SumSeq([p \in 1..Len(productive_patterns) |->
            FindAllCount(text, productive_patterns[p])]),
     unproductive |->
        SumSeq([p \in 1..Len(unproductive_patterns) |->
            FindAllCount(text, unproductive_patterns[p])])]

calculate_pattern_score(text) ==
    [productive |->
        SumSeq([p \in 1..Len(productive_patterns) |->
            FindAllCount(text, productive_patterns[p]) * 2]),
     unproductive |->
        SumSeq([p \in 1..Len(unproductive_patterns) |->
            FindAllCount(text, unproductive_patterns[p]) * 2])]

analyze_structure(text) ==
    Count(text, <<"?">>) * 2
        + (IF WordCount(text) < 20 THEN -1 ELSE 0)
        + (IF WordCount(text) > 200 THEN 1 ELSE 0)

\* any(word in content_lower for word in words)
AnyIn(content_lower, words) ==
    \E k \in 1..Len(words) : Contains(content_lower, words[k])

ReplyUrgent == "Obrigado pelo seu email. Entendo a importância e urgência da solicitação. Vou priorizar esta demanda e retornar com uma resposta detalhada o mais breve possível."

ReplyMeeting == "Obrigado pela solicitação de reunião. Vou verificar minha agenda e retornar com opções de horários que funcionem para ambos. Aguarde meu retorno em breve."

ReplyQuestion == "Obrigado pela sua pergunta. Vou analisar os pontos levantados e retornar com uma resposta detalhada. Se precisar de esclarecimentos adicionais, por favor me informe."

ReplyProblem == "Obrigado por reportar esta questão. Vou investigar o problema imediatamente e trabalhar em uma solução. Manterei você informado sobre o progresso."

ReplyProductive == "Obrigado pelo seu email. Recebi sua solicitação e vou trabalhar nisso. Retornarei com uma resposta completa em breve."

ReplyThanks == "De nada! Foi um prazer ajudar. Se precisar de mais alguma coisa, não hesite em entrar em contato."

ReplyCongratulation == "Muito obrigado pelas felicitações! Fico feliz em compartilhar esta conquista com você."

ReplyInformation == "Obrigado pela informação. Recebi o comunicado e tomarei as ações necessárias conforme apropriado."

ReplyUnproductive == "Obrigado pelo seu email. Recebi a informação e fico à disposição se precisar de algo mais."

ReplyEmergency == "Obrigado pelo seu email. Analisaremos o conteúdo e retornaremos em breve."

ReplyFallbackProductive == "Obrigado pelo seu email. Recebi sua solicitação e retornarei em breve com as informações necessárias."

\* the word lists of _generate_response, in the order of its branches
UrgencyWords ==
    << <<"u","r","g","e","n","t","e">>, <<"i","m","p","o","r","t","a","n","t","e">>, <<"p","r","i","o","r","i","d","a","d","e">> >>

MeetingWords ==
    << <<"r","e","u","n","i","ã","o">>, <<"m","e","e","t","i","n","g">>, <<"a","g","e","n","d","a">> >>

QuestionWords ==
    << <<"p","e","r","g","u","n","t","a">>, <<"d","ú","v","i","d","a">>, <<"q","u","e","s","t","ã","o">>, <<"?">> >>

ProblemWords ==
    << <<"p","r","o","b","l","e","m","a">>, <<"e","r","r","o">>, <<"b","u","g">>, <<"f","a","l","h","a">> >>

GratitudeWords ==
    << <<"o","b","r","i","g","a","d","o">>, <<"o","b","r","i","g","a","d","a">>, <<"a","g","r","a","d","e","c">> >>

CongratulationWords ==
    << <<"p","a","r","a","b","é","n","s">>, <<"f","e","l","i","c","i","t","a","ç","õ","e","s">> >>

InformationWords ==
    << <<"i","n","f","o","r","m","a","ç","ã","o">>, <<"c","o","m","u","n","i","c","a","d","o">>, <<"a","v","i","s","o">> >>

\* a faulty synthesizer that looks for a meeting before an urgency
generate_response_meeting_first(classification, content) ==
    IF classification = PRODUCTIVE
    THEN IF AnyIn(Lower(content), MeetingWords) THEN ReplyMeeting
         ELSE IF AnyIn(Lower(content), UrgencyWords) THEN ReplyUrgent
         ELSE IF AnyIn(Lower(content), QuestionWords) THEN ReplyQuestion
         ELSE IF AnyIn(Lower(content), ProblemWords) THEN ReplyProblem
         ELSE ReplyProductive
    ELSE IF AnyIn(Lower(content), GratitudeWords) THEN ReplyThanks
         ELSE IF AnyIn(Lower(content), CongratulationWords) THEN ReplyCongratulation
         ELSE IF AnyIn(Lower(content), InformationWords) THEN ReplyInformation
         ELSE ReplyUnproductive

\* a faulty synthesizer without the generic replies
generate_response_no_default(classification, content) ==
    IF classification = PRODUCTIVE
    THEN IF AnyIn(Lower(content), UrgencyWords) THEN ReplyUrgent
         ELSE IF AnyIn(Lower(content), MeetingWords) THEN ReplyMeeting
         ELSE IF AnyIn(Lower(content), QuestionWords) THEN ReplyQuestion
         ELSE IF AnyIn(Lower(content), ProblemWords) THEN ReplyProblem
         ELSE ""
    ELSE IF AnyIn(Lower(content), GratitudeWords) THEN ReplyThanks
         ELSE IF AnyIn(Lower(content), CongratulationWords) THEN ReplyCongratulation
         ELSE IF AnyIn(Lower(content), InformationWords) THEN ReplyInformation
         ELSE ""

\* _generate_response: the first branch whose word list hits the lower-cased
\* original content decides
generate_response(classification, content) ==
    LET content_lower == Lower(content)
    IN  IF classification = PRODUCTIVE
        THEN IF AnyIn(content_lower, UrgencyWords) THEN ReplyUrgent
             ELSE IF AnyIn(content_lower, MeetingWords) THEN ReplyMeeting
             ELSE IF AnyIn(content_lower, QuestionWords) THEN ReplyQuestion
             ELSE IF AnyIn(content_lower, ProblemWords) THEN ReplyProblem
             ELSE ReplyProductive
        ELSE IF AnyIn(content_lower, GratitudeWords) THEN ReplyThanks
             ELSE IF AnyIn(content_lower, CongratulationWords) THEN ReplyCongratulation
             ELSE IF AnyIn(content_lower, InformationWords) THEN ReplyInformation
             ELSE ReplyUnproductive

(***************************************************************************)
(* Python values.  A content argument is a str or not (the annotation      *)
(* "content: str" is not enforced).  A JSON value of the remote response   *)
(* is a string, a number (in thousandths) or null.  A call that raises     *)
(* returns Raised.                                                          *)
(***************************************************************************)
Str(text) == [str |-> TRUE, text |-> text]

NotStr == [str |-> FALSE, text |-> <<>>]

JStr(s) == [type |-> "string", s |-> s, n |-> 0]

JNum(n) == [type |-> "number", s |-> "", n |-> n]

JNull == [type |-> "null", s |-> "", n |-> 0]

Raised == [raised |-> TRUE]

Returned(v) == [raised |-> FALSE, value |-> v]

(***************************************************************************)
(* schemas.py: EmailAnalysisResponse.  The constructor validates its       *)
(* fields (a str reply, a confidence in [0, 1], a member of the enum) and  *)
(* raises a ValidationError otherwise.                                      *)
(***************************************************************************)
EmailAnalysisResponse(id, classification, confidence, suggested_response, file_name) ==
    IF /\ classification \in {PRODUCTIVE, UNPRODUCTIVE}
       /\ confidence >= 0 /\ confidence <= 1000
       /\ suggested_response.type = "string"
    THEN Returned([id |-> id,
                   classification |-> classification,
                   confidence |-> confidence,
                   suggested_response |-> suggested_response.s,
                   file_name |-> file_name])
    ELSE Raised

\* a faulty default that forgets the caller's file name
EmergencyResponseNoFile(id, file_name) ==
    EmailAnalysisResponse(id, UNPRODUCTIVE, 500, JStr(ReplyEmergency), <<>>)

\* the "except Exception" branch of both classify_email methods
EmergencyResponse(id, file_name) ==
    EmailAnalysisResponse(id, UNPRODUCTIVE, 500, JStr(ReplyEmergency), file_name)

(***************************************************************************)
(* EmailClassifierService.classify_email (the full rule-based scorer).     *)
(***************************************************************************)
\* faulty totals that add the unproductive pattern score
TotalsWithUnproductivePatterns(kw, pat, structure_score) ==
    [keyword_productive |-> kw.productive,
     keyword_unproductive |-> kw.unproductive,
     pattern_productive |-> pat.productive,
     pattern_unproductive |-> pat.unproductive,
     structure_score |-> structure_score,
     total_productive |-> kw.productive + pat.productive + structure_score,
     total_unproductive |-> kw.unproductive + pat.unproductive]

\* lines 137-139: the totals
Totals(kw, pat, structure_score) ==
    [keyword_productive |-> kw.productive,
     keyword_unproductive |-> kw.unproductive,
     pattern_productive |-> pat.productive,
     pattern_unproductive |-> pat.unproductive,
     structure_score |-> structure_score,
     total_productive |-> kw.productive + pat.productive + structure_score,
     total_unproductive |-> kw.unproductive]

\* lines 133-135: the three scores, all of the processed text
ScoresOf(processed_text) ==
    Totals(calculate_keyword_score(processed_text),
           calculate_pattern_score(processed_text),
           analyze_structure(processed_text))

\* a faulty scorer with hidden state: the productive count of the store
\* leaks into the keyword score
ScoresWithCount(text) ==
    Totals([productive |-> calculate_keyword_score(preprocess_text(text)).productive
                              + stats.productive_count,
            unproductive |-> calculate_keyword_score(preprocess_text(text)).unproductive],
           calculate_pattern_score(preprocess_text(text)),
           analyze_structure(preprocess_text(text)))

\* a faulty scorer that matches the patterns in the caller's text
ScoresPatternsOfOriginal(text) ==
    Totals(calculate_keyword_score(preprocess_text(text)),
           calculate_pattern_score(text),
           analyze_structure(preprocess_text(text)))

\* lines 130-139: the scores of one call
Scores(text) == ScoresOf(preprocess_text(text))

\* a faulty confidence without the cap
ConfidenceUncapped(difference) == Max(500, 600 + difference * 50)

\* a faulty confidence that starts from the floor 0.5 instead of 0.6
ConfidenceFromFloor(difference) == Max(500, Min(950, 500 + difference * 50))

\* lines 143-150: the confidence of a difference of the totals
Confidence(difference) == Max(500, Min(950, 600 + difference * 50))

\* a faulty decision in which balanced totals count as productive
DecideTiesProductive(total_productive, total_unproductive) ==
    IF total_productive >= total_unproductive
    THEN [classification |-> PRODUCTIVE,
          confidence |-> Confidence(total_productive - total_unproductive)]
    ELSE [classification |-> UNPRODUCTIVE,
          confidence |-> Confidence(total_unproductive - total_productive)]

\* a faulty decision that takes the same signed difference in both branches
DecideSigned(total_productive, total_unproductive) ==
    IF total_productive > total_unproductive
    THEN [classification |-> PRODUCTIVE,
          confidence |-> Confidence(total_productive - total_unproductive)]
    ELSE [classification |-> UNPRODUCTIVE,
          confidence |-> Confidence(total_productive - total_unproductive)]

\* lines 141-147: the classification from the totals
Decide(total_productive, total_unproductive) ==
    IF total_productive > total_unproductive
    THEN [classification |-> PRODUCTIVE,
          confidence |-> Confidence(total_productive - total_unproductive)]
    ELSE [classification |-> UNPRODUCTIVE,
          confidence |-> Confidence(total_unproductive - total_productive)]

NoScores ==
    [keyword_productive |-> 0, keyword_unproductive |-> 0, pattern_productive |-> 0,
     pattern_unproductive |-> 0, structure_score |-> 0, total_productive |-> 0,
     total_unproductive |-> 0]

\* The outcome of a call: what it returns or that it raises, the scoring path
\* that produced the result, the scores the rule-based path computed, the
\* number of ids (uuid4 calls) it used and the number of remote calls it made.
Outcome(r, path, scores, ids, remote_calls) ==
    [r |-> r, path |-> path, scores |-> scores, ids |-> ids,
     remote_calls |-> remote_calls]

\* a faulty classify_email without the "except Exception" branch
OrEmergencyPropagates(r, path, scores, file_name, id, remote_calls) ==
    Outcome(r, path, scores, 1, remote_calls)

\* try: ... return EmailAnalysisResponse(...); except Exception: the default
OrEmergency(r, path, scores, file_name, id, remote_calls) ==
    IF r.raised
    THEN Outcome(EmergencyResponse(id + 1, file_name), "emergency", scores, 2, remote_calls)
    ELSE Outcome(r, path, scores, 1, remote_calls)

\* lines 152-165: the reply and the record
RuleBasedResponse(d, content, file_name, id) ==
    EmailAnalysisResponse(id, d.classification, Round2(d.confidence),
                          JStr(generate_response(d.classification, content)), file_name)

RuleBased(sc, content, file_name, id) ==
    OrEmergency(RuleBasedResponse(Decide(sc.total_productive, sc.total_unproductive),
                                  content, file_name, id),
                "rule_based", sc, file_name, id, 0)

EmailClassifierService_classify_email(content, file_name, id) ==
    IF ~content.str
    THEN \* text.lower() raises before an id is drawn; except Exception
         Outcome(EmergencyResponse(id, file_name), "emergency", NoScores, 1, 0)
    ELSE RuleBased(Scores(content.text), content.text, file_name, id)

(***************************************************************************)
(* OpenAIEmailClassifierService (openai_classifier.py).                     *)
(***************************************************************************)
required_keys == {"classification", "confidence", "reasoning", "suggested_response"}

\* float(x) of a JSON value: a number converts; null and the non-numeric
\* strings of the model raise
Float(j) == IF j.type = "number" THEN Returned(j.n) ELSE Raised

\* a faulty validation that keeps the confidence as it came
ClampNone(confidence) == confidence

\* a faulty clamp that only cuts at the upper end
ClampUpperOnly(confidence) == Min(1000, confidence)

\* lines 107-110: the confidence kept in [0.5, 1.0]
Clamp(confidence) ==
    IF ~(500 <= confidence /\ confidence <= 1000)
    THEN Max(500, Min(1000, confidence))
    ELSE confidence

\* a faulty validation that accepts every classification value
ValidateAnyClassification(result) ==
    IF ~(required_keys \subseteq DOMAIN result) THEN Raised
    ELSE IF Float(result["confidence"]).raised THEN Raised
    ELSE Returned([classification |-> result["classification"].s,
                   confidence |-> Clamp(Float(result["confidence"]).value),
                   reasoning |-> result["reasoning"],
                   suggested_response |-> result["suggested_response"]])

\* lines 98-113: the validation of the parsed object
Validate(result) ==
    IF ~(required_keys \subseteq DOMAIN result) THEN Raised
    ELSE IF result["classification"] \notin {JStr("productive"), JStr("unproductive")}
    THEN Raised
    ELSE IF Float(result["confidence"]).raised THEN Raised
    ELSE Returned([classification |-> result["classification"].s,
                   confidence |-> Clamp(Float(result["confidence"]).value),
                   reasoning |-> result["reasoning"],
                   suggested_response |-> result["suggested_response"]])

\* classify_with_openai.  remote is what the service answers: a transport
\* failure, a body that is no JSON, or a JSON object (a function from its
\* keys to JSON values).  Every failure leaves as one exception.
classify_with_openai(remote) ==
    IF remote.kind = "transport_error" THEN Raised
    ELSE IF remote.kind = "not_json" THEN Raised
    ELSE Validate(remote.obj)

\* sum(1 for word in words if word in content_lower)
Hits(content_lower, words) ==
    Cardinality({k \in 1..Len(words) : Contains(content_lower, words[k])})

FallbackResult(productive_score, unproductive_score) ==
    IF productive_score > unproductive_score
    THEN [classification |-> "productive",
          confidence |-> Max(500, Min(850, 600 + (productive_score - unproductive_score) * 50)),
          reasoning |-> JStr("Email contém elementos que sugerem necessidade de ação ou resposta"),
          suggested_response |-> JStr(ReplyFallbackProductive)]
    ELSE [classification |-> "unproductive",
          confidence |-> Max(500, Min(850, 600 + (unproductive_score - productive_score) * 50)),
          reasoning |-> JStr("Email parece ser informativo ou de cortesia"),
          suggested_response |-> JStr(ReplyUnproductive)]

\* generate_fallback_response (the simplified heuristic); content.lower()
\* raises when content is no str
generate_fallback_response(content) ==
    IF ~content.str THEN Raised
    ELSE Returned(FallbackResult(
             Hits(Lower(content.text), productive_indicators)
                 + (IF Contains(content.text, <<"?">>) THEN 2 ELSE 0),
             Hits(Lower(content.text), unproductive_indicators)))

\* a faulty conversion that leaves the file name out
ToResponseNoFile(result, id, file_name) ==
    IF result.raised THEN Raised
    ELSE EmailAnalysisResponse(
             id,
             IF result.value.classification = "productive" THEN PRODUCTIVE ELSE UNPRODUCTIVE,
             Round2(result.value.confidence),
             result.value.suggested_response,
             <<>>)

\* lines 180-190: the result dictionary as a response record
ToResponse(result, id, file_name) ==
    IF result.raised THEN Raised
    ELSE EmailAnalysisResponse(
             id,
             IF result.value.classification = "productive" THEN PRODUCTIVE ELSE UNPRODUCTIVE,
             Round2(result.value.confidence),
             result.value.suggested_response,
             file_name)

\* lines 169-178: rem is the outcome of the remote call when it was tried
Orchestrate(tried, rem, content, file_name, id) ==
    IF tried /\ ~rem.raised
    THEN OrEmergency(ToResponse(rem, id, file_name), "remote", NoScores, file_name, id, 1)
    ELSE OrEmergency(ToResponse(generate_fallback_response(content), id, file_name),
                     "simplified", NoScores, file_name, id, IF tried THEN 1 ELSE 0)

\* classify_email.  available is self.is_available, use_openai is
\* settings.use_openai.  The outer "except Exception" answers every failure
\* of the fallback or of the construction of the record.
OpenAIEmailClassifierService_classify_email(available, use_openai, content, file_name, remote, id) ==
    Orchestrate(available /\ use_openai,
                IF available /\ use_openai THEN classify_with_openai(remote) ELSE Raised,
                content, file_name, id)

(***************************************************************************)
(* Bounds and input sets.                                                   *)
(***************************************************************************)
\* the number of vocabulary pieces of a generated text
MaxWords == 2

\* the number of requests the /analyze handler serves in one behaviour
MaxCalls == 2

\* Pieces of a text: keywords of several categories, a word that holds a
\* keyword of each class ("informação" holds "ação"), a modal verb, an
\* upper-case word, a neutral word, and punctuation that normalization keeps
\* ("?") or replaces by a space (",").
Vocabulary ==
    { <<"u","r","g","e","n","t","e">>,
      <<"i","m","e","d","i","a","t","o">>,
      <<"o","b","r","i","g","a","d","o">>,
      <<"i","n","f","o","r","m","a","ç","ã","o">>,
      <<"p","o","d","e">>,
      <<"R","E","U","N","I","Ã","O">>,
      <<"o","i">>,
      <<"?">>,
      <<",">> }

\* the texts of n pieces, joined by single spaces
RECURSIVE Joined(_)
Joined(n) ==
    IF n = 0 THEN {<<>>}
    ELSE IF n = 1 THEN Vocabulary
    ELSE {t \o <<" ">> \o w : t \in Joined(n - 1), w \in Vocabulary}

\* n words "oi", for the word-count thresholds of analyze_structure
Words(n) == [i \in 1..(3 * n - 1) |-> IF i % 3 = 1 THEN "o" ELSE IF i % 3 = 2 THEN "i" ELSE " "]

\* one text per keyword of the urgency category
UrgencyTexts == {productive_keywords[2].keywords[k] : k \in 1..6}

\* "Preciso que você aprove o orçamento até amanhã, urgente!"
ScenarioText ==
    << "P","r","e","c","i","s","o"," ","q","u","e"," ","v","o","c","ê",
       " ","a","p","r","o","v","e"," ","o"," ","o","r","ç","a","m","e",
       "n","t","o"," ","a","t","é"," ","a","m","a","n","h","ã",","," ",
       "u","r","g","e","n","t","e","!" >>

\* "pode, oi": a modal verb with a comma between it and the next word
PunctuatedText == <<"p","o","d","e",","," ","o","i">>

Texts ==
    UNION {Joined(n) : n \in 0..MaxWords}
        \cup UrgencyTexts
        \cup {ScenarioText, PunctuatedText}
        \cup {Words(19) \o <<" ", "?">>, Words(20), Words(201)}

\* the contents of the requests to the service with the remote path: one
\* with balanced totals, one with a question mark and a modal verb, one of
\* courtesy, one urgent, a request for an approval, and the empty text
RequestTexts ==
    { <<>>,
      <<"i","n","f","o","r","m","a","ç","ã","o">>,
      <<"p","o","d","e"," ",","," ","o","i"," ","?">>,
      <<"o","b","r","i","g","a","d","o"," ","o","i">>,
      <<"u","r","g","e","n","t","e"," ","o","i">>,
      ScenarioText }

\* file_name: None or a name
FileNames == {<<>>, <<"email.txt">>}

\* the remote service's answers
JsonObject(classification, confidence, suggested_response) ==
    [k \in required_keys |->
        CASE k = "classification" -> classification
          [] k = "confidence" -> confidence
          [] k = "reasoning" -> JStr("motivo")
          [] k = "suggested_response" -> suggested_response]

\* an object without key k
Without(obj, k) == [j \in DOMAIN obj \ {k} |-> obj[j]]

RemoteReply == "Resposta sugerida pelo modelo remoto."

RemoteClassifications == {JStr("productive"), JStr("unproductive"), JStr("spam")}

\* thousandths; "alta" stands for a value float() rejects
RemoteConfidences ==
    {JNum(-200), JNum(300), JNum(500), JNum(734), JNum(1000), JNum(1400), JStr("alta")}

RemoteSuggestions == {JStr(RemoteReply), JStr(""), JNull}

RemoteOutcomes ==
    {[kind |-> "transport_error"], [kind |-> "not_json"]}
        \cup {[kind |-> "json", obj |-> JsonObject(c, f, s)] :
                 c \in RemoteClassifications, f \in RemoteConfidences,
                 s \in RemoteSuggestions}
        \cup {[kind |-> "json",
               obj |-> Without(JsonObject(JStr("productive"), JNum(900), JStr(RemoteReply)), k)] :
                 k \in required_keys}

\* the answers the /analyze handler meets in the model with the store
EndpointRemotes ==
    {[kind |-> "transport_error"],
     [kind |-> "json", obj |-> JsonObject(JStr("productive"), JNum(1400), JStr(RemoteReply))],
     [kind |-> "json", obj |-> JsonObject(JStr("unproductive"), JNum(300), JStr(RemoteReply))],
     [kind |-> "json", obj |-> JsonObject(JStr("productive"), JNum(734), JNull)],
     [kind |-> "json", obj |-> JsonObject(JStr("spam"), JNum(900), JStr(RemoteReply))],
     [kind |-> "json",
      obj |-> Without(JsonObject(JStr("productive"), JNum(900), JStr(RemoteReply)), "reasoning")]}

\* the remote service was not called
NotCalled == [kind |-> "not_called"]

(***************************************************************************)
(* DataStorageService (data_storage.py).                                    *)
(***************************************************************************)
HistoryLimit == 100

TruncateLength == 200

\* rfind(' ') of the first max_length characters, as a 0-based index, -1 when
\* there is none
LastSpace(content, max_length) ==
    LeastOr({-i : i \in {j \in 1..max_length : content[j] = " "}}, 0) * (-1) - 1

\* lines 113-120: the cut at max_length or at last_space, and the dots
Cut(content, max_length, last_space) ==
    (IF last_space * 10 > max_length * 8
     THEN SubSeq(content, 1, last_space)
     ELSE SubSeq(content, 1, max_length)) \o <<".", ".", ".">>

\* _truncate_content
truncate_content(content, max_length) ==
    IF Len(content) <= max_length THEN content
    ELSE Cut(content, max_length, LastSpace(content, max_length))

\* _update_stats
update_stats(st, analysis) ==
    [total_processed |-> st.total_processed + 1,
     total_confidence |-> st.total_confidence + analysis.confidence,
     productive_count |->
        st.productive_count + (IF analysis.classification = PRODUCTIVE THEN 1 ELSE 0),
     unproductive_count |->
        st.unproductive_count + (IF analysis.classification = PRODUCTIVE THEN 0 ELSE 1)]

\* lines 35-43: the history item of an analysis
HistoryItem(analysis, content) ==
    [id |-> analysis.id,
     content |-> truncate_content(content, TruncateLength),
     classification |-> analysis.classification,
     confidence |-> analysis.confidence,
     suggested_response |-> analysis.suggested_response,
     file_name |-> analysis.file_name]

\* a faulty cap that keeps the oldest items
CappedOldest(items) ==
    IF Len(items) > HistoryLimit THEN SubSeq(items, 1, HistoryLimit) ELSE items

\* lines 47-49: only the last HistoryLimit items stay
Capped(items) ==
    IF Len(items) > HistoryLimit
    THEN SubSeq(items, Len(items) - HistoryLimit + 1, Len(items))
    ELSE items

\* a faulty store that resets the confidence of the record it keeps
store_analysis_resetting(store, analysis, content) ==
    [analyses |-> (analysis.id :> [analysis EXCEPT !.confidence = 500]) @@ store.analyses,
     history |-> Capped(Append(store.history, HistoryItem(analysis, content))),
     stats |-> update_stats(store.stats, analysis)]

\* a faulty store that forgets a result when its history item is evicted
store_analysis_evicting(store, analysis, content) ==
    [analyses |->
        [id \in {id \in DOMAIN store.analyses \cup {analysis.id} :
                    id > analysis.id - HistoryLimit} |->
            IF id = analysis.id THEN analysis ELSE store.analyses[id]],
     history |-> Capped(Append(store.history, HistoryItem(analysis, content))),
     stats |-> update_stats(store.stats, analysis)]

\* store_analysis: the three parts of the store after the call
store_analysis(store, analysis, content) ==
    [analyses |-> (analysis.id :> analysis) @@ store.analyses,
     history |-> Capped(Append(store.history, HistoryItem(analysis, content))),
     stats |-> update_stats(store.stats, analysis)]

EmptyStats ==
    [total_processed |-> 0, productive_count |-> 0, unproductive_count |-> 0,
     total_confidence |-> 0]

\* get_analysis: self._analyses.get(analysis_id), None when the id is unknown
get_analysis(store_analyses, analysis_id) ==
    IF analysis_id \in DOMAIN store_analyses THEN <<store_analyses[analysis_id]>> ELSE <<>>

\* items[start:] of Python, for any integer start
SliceFrom(items, start) ==
    SubSeq(items,
           (IF start < 0 THEN Max(Len(items) + start, 0) ELSE Min(start, Len(items))) + 1,
           Len(items))

\* reversed(items)
Reversed(items) == [i \in 1..Len(items) |-> items[Len(items) + 1 - i]]

\* get_history: list(reversed(self._history[-limit:]))
get_history(items, limit) == Reversed(SliceFrom(items, -limit))

\* get_analysis_by_classification
get_analysis_by_classification(items, classification) ==
    SelectSeq(items, LAMBDA item : item.classification = classification)

\* get_stats; the average of the confidences (thousandths) is rounded to the
\* nearest hundredth, a half upwards
get_stats(st) ==
    [total_processed |-> st.total_processed,
     productive_count |-> st.productive_count,
     unproductive_count |-> st.unproductive_count,
     average_confidence |->
        IF st.total_processed > 0
        THEN ((2 * st.total_confidence + 10 * st.total_processed)
                  \div (20 * st.total_processed)) * 10
        ELSE 0]

\* a faulty clear that empties the history and leaves the rest
clear_history_history_only(store) ==
    [analyses |-> store.analyses, history |-> <<>>, stats |-> store.stats, r |-> TRUE]

\* clear_history: the store after the call, and the value it returns
clear_history(store) ==
    [analyses |-> <<>>, history |-> <<>>, stats |-> EmptyStats, r |-> TRUE]

(***************************************************************************)
(* Construction: config.py Settings, OpenAIEmailClassifierService.__init__ *)
(* and DataStorageService.__init__.                                         *)
(***************************************************************************)
ApiKeys == {"", "sk-key"}

\* a faulty constructor that marks the adapter available without a credential
OpenAIEmailClassifierService_init_open(openai_api_key, client_ok) == client_ok

\* __init__: available iff the key is set, the openai package was imported
\* and the client's constructor did not raise (client_ok)
OpenAIEmailClassifierService_init(openai_api_key, client_ok) ==
    openai_api_key # "" /\ client_ok

\* the number of requests that reach the worker process in one behaviour
MaxRequests == 3

RequestIds == 1..MaxRequests

\* a request that was not sent yet
NotSent ==
    [phase |-> "none", content |-> <<>>, file_name |-> <<>>, r |-> Raised,
     path |-> "none"]

NoCall ==
    [op |-> "none", content |-> NotStr, file_name |-> <<>>, remote |-> NotCalled,
     r |-> Raised, path |-> "none", scores |-> NoScores, remote_calls |-> 0]

Init ==
    /\ settings \in [openai_api_key : ApiKeys, use_openai : BOOLEAN]
    /\ \E client_ok \in BOOLEAN :
          is_available = OpenAIEmailClassifierService_init(settings.openai_api_key, client_ok)
    /\ analyses = <<>>
    /\ history = <<>>
    /\ stats = EmptyStats
    /\ next_id = 1
    /\ last = NoCall
    /\ requests = [q \in RequestIds |-> NotSent]
    /\ stored = <<>>

\* the record of a call
Call(op, content, file_name, remote, o) ==
    [op |-> op, content |-> content, file_name |-> file_name,
     remote |-> IF o.remote_calls = 0 THEN NotCalled ELSE remote,
     r |-> o.r, path |-> o.path, scores |-> o.scores, remote_calls |-> o.remote_calls]

(***************************************************************************)
(* endpoints.py: POST /analyze.  The request model rejects a content of    *)
(* fewer than 10 or more than 10000 characters or of whitespace only, and  *)
(* strips the content; the handler classifies, stores and returns.          *)
(***************************************************************************)
MinContentLength == 10

MaxContentLength == 10000

EmailAnalysisRequest(raw_content) ==
    IF /\ Len(raw_content) >= MinContentLength
       /\ Len(raw_content) <= MaxContentLength
       /\ Strip(raw_content) # <<>>
    THEN Returned(Strip(raw_content))
    ELSE Raised

\* a faulty routing that always asks the service with the remote path
ClassifyRemoteService(content, file_name, remote, id) ==
    OpenAIEmailClassifierService_classify_email(
        is_available, settings.use_openai, Str(content), file_name, remote, id)

\* lines 46-56: the choice of the service
Classify(content, file_name, remote, id) ==
    IF settings.use_openai /\ settings.openai_api_key # ""
    THEN OpenAIEmailClassifierService_classify_email(
             is_available, settings.use_openai, Str(content), file_name, remote, id)
    ELSE EmailClassifierService_classify_email(Str(content), file_name, id)

\* line 59 and the return: the store after the handler
Stored(o, content) ==
    IF o.r.raised
    THEN [analyses |-> analyses, history |-> history, stats |-> stats]
    ELSE store_analysis([analyses |-> analyses, history |-> history, stats |-> stats],
                        o.r.value, content)

\* stored is the record of the store_analysis calls since the latest clear:
\* the handler adds its call when the classification returned
Logged(o, content) ==
    IF o.r.raised THEN stored
    ELSE Append(stored, [analysis |-> o.r.value, content |-> content])

AnalyzeEmail ==
    /\ next_id <= MaxCalls
    /\ \E raw_content \in RequestTexts, file_name \in FileNames, remote \in EndpointRemotes :
          /\ ~EmailAnalysisRequest(raw_content).raised
          /\ \E content \in {EmailAnalysisRequest(raw_content).value} :
             \E o \in {Classify(content, file_name, remote, next_id)} :
             \E store \in {Stored(o, content)} :
                /\ last' = Call("analyze", Str(content), file_name, remote, o)
                /\ next_id' = next_id + o.ids
                /\ analyses' = store.analyses
                /\ history' = store.history
                /\ stats' = store.stats
                /\ stored' = Logged(o, content)
    /\ UNCHANGED <<settings, is_available, requests>>

Next == AnalyzeEmail

Spec == Init /\ [][Next]_vars

(***************************************************************************)
(* Direct calls of the two services' classify_email.  The services keep no *)
(* state between calls (classify_email only reads is_available and the     *)
(* settings), so a behaviour of SpecClassify is one call on one input.     *)
(***************************************************************************)
ClassifyLocal ==
    /\ last.op = "none"
    /\ \E content \in {Str(t) : t \in Texts} \cup {NotStr}, file_name \in FileNames :
       \E o \in {EmailClassifierService_classify_email(content, file_name, next_id)} :
          /\ last' = Call("classify_local", content, file_name, NotCalled, o)
          /\ next_id' = next_id + o.ids
    /\ UNCHANGED <<settings, is_available, analyses, history, stats, requests, stored>>

ClassifyOpenAI ==
    /\ last.op = "none"
    /\ \E content \in {Str(t) : t \in RequestTexts} \cup {NotStr},
          file_name \in FileNames, remote \in RemoteOutcomes :
       \E o \in {OpenAIEmailClassifierService_classify_email(
                     is_available, settings.use_openai, content, file_name, remote, next_id)} :
          /\ last' = Call("classify_openai", content, file_name, remote, o)
          /\ next_id' = next_id + o.ids
    /\ UNCHANGED <<settings, is_available, analyses, history, stats, requests, stored>>

\* One word of each branch of _generate_response, from the lowest priority
\* to the highest: information, congratulation, gratitude, problem,
\* question, meeting, urgency (in upper case).
SignalWords ==
    << <<"a","v","i","s","o">>,
       <<"p","a","r","a","b","é","n","s">>,
       <<"a","g","r","a","d","e","c","o">>,
       <<"e","r","r","o">>,
       <<"d","ú","v","i","d","a">>,
       <<"a","g","e","n","d","a">>,
       <<"U","R","G","E","N","T","E">> >>

\* the words of the set S of indices, from k on, each followed by a space
RECURSIVE SignalText(_, _)
SignalText(S, k) ==
    IF k > Len(SignalWords) THEN <<>>
    ELSE (IF k \in S THEN SignalWords[k] \o <<" ">> ELSE <<>>) \o SignalText(S, k + 1)

\* one text per combination of signals
SignalTexts == {SignalText(S, 1) : S \in SUBSET (1..Len(SignalWords))}

\* a direct call of _generate_response
GenerateResponse ==
    /\ last.op = "none"
    /\ \E classification \in {PRODUCTIVE, UNPRODUCTIVE}, content \in SignalTexts :
          last' = [op |-> "generate_response", content |-> Str(content),
                   file_name |-> <<>>, remote |-> NotCalled,
                   r |-> Returned([classification |-> classification,
                                   suggested_response |->
                                       generate_response(classification, content)]),
                   path |-> "none", scores |-> NoScores, remote_calls |-> 0]
    /\ UNCHANGED <<settings, is_available, analyses, history, stats, next_id, requests,
                   stored>>

NextClassify == ClassifyLocal \/ ClassifyOpenAI \/ GenerateResponse

SpecClassify == Init /\ [][NextClassify]_vars

(***************************************************************************)
(* The worker process (gunicorn.conf.py: workers = 1, one uvicorn event    *)
(* loop).  A request is sent, its handler is started by the loop, and the  *)
(* handler ends with the response.  analyze_email awaits classify_email,   *)
(* which awaits classify_with_openai, which calls the synchronous client   *)
(* (self.client.chat.completions.create) without an await: the handler     *)
(* never yields, and while it is in the remote call the loop runs no other *)
(* handler.  requests[q].phase is "none", "arrived" (the task waits for    *)
(* the loop), "remote" (the handler is inside the remote call) or "done".  *)
(***************************************************************************)
ServerTexts ==
    { <<"u","r","g","e","n","t","e"," ","o","i">>,
      <<"o","b","r","i","g","a","d","o"," ","o","i">> }

ServerRemotes ==
    {[kind |-> "transport_error"],
     [kind |-> "json", obj |-> JsonObject(JStr("unproductive"), JNum(1400), JStr(RemoteReply))]}

\* lines 47 and 168: this request reaches the remote call
CallsRemote == settings.use_openai /\ settings.openai_api_key # "" /\ is_available

\* the loop is free: no handler is inside the remote call
LoopFree == \A p \in RequestIds : requests[p].phase # "remote"

Arrive(q) ==
    /\ requests[q].phase = "none"
    /\ \E raw_content \in ServerTexts :
          /\ ~EmailAnalysisRequest(raw_content).raised
          /\ requests' = [requests EXCEPT ![q] =
                 [phase |-> "arrived", content |-> EmailAnalysisRequest(raw_content).value,
                  file_name |-> <<>>, r |-> Raised, path |-> "none"]]
    /\ UNCHANGED <<settings, is_available, analyses, history, stats, next_id, last, stored>>

\* lines 46-63 of the handler of request q, from the classification on
Complete(q, remote) ==
    \E o \in {Classify(requests[q].content, requests[q].file_name, remote, next_id)} :
    \E store \in {Stored(o, requests[q].content)} :
       /\ last' = Call("analyze", Str(requests[q].content), requests[q].file_name, remote, o)
       /\ next_id' = next_id + o.ids
       /\ analyses' = store.analyses
       /\ history' = store.history
       /\ stats' = store.stats
       /\ stored' = Logged(o, requests[q].content)
       /\ requests' = [requests EXCEPT ![q].phase = "done", ![q].r = o.r,
                                       ![q].path = o.path]

\* the loop starts the handler of q; without a remote call it runs to its end
Start(q) ==
    /\ requests[q].phase = "arrived"
    /\ LoopFree
    /\ IF CallsRemote
       THEN /\ requests' = [requests EXCEPT ![q].phase = "remote"]
            /\ UNCHANGED <<analyses, history, stats, next_id, last, stored>>
       ELSE Complete(q, NotCalled)
    /\ UNCHANGED <<settings, is_available>>

\* the remote call of q returns or fails, and the handler runs to its end
RemoteReturns(q) ==
    /\ requests[q].phase = "remote"
    /\ \E remote \in ServerRemotes : Complete(q, remote)
    /\ UNCHANGED <<settings, is_available>>

\* DELETE /history: the handler of clear_history, which has no await
ClearHistory ==
    /\ LoopFree
    /\ analyses' = <<>>
    /\ history' = <<>>
    /\ stats' = EmptyStats
    /\ stored' = <<>>
    /\ UNCHANGED <<settings, is_available, next_id, last, requests>>

NextServer ==
    \/ \E q \in RequestIds : Arrive(q)
    \/ \E q \in RequestIds : Start(q)
    \/ \E q \in RequestIds : RemoteReturns(q)
    \/ ClearHistory

SpecServer == Init /\ [][NextServer]_vars

(***************************************************************************)
(* Direct calls of the DataStorageService and of the /history handler.     *)
(* store_analysis is called with the records the classifiers return, whose *)
(* ids are fresh (uuid4).  To fill the history past its limit a behaviour  *)
(* makes up to MaxStores calls: the first FreeStores of them store any     *)
(* sample, a later one stores the sample of its position.                  *)
(***************************************************************************)
MaxStores == 103

FreeStores == 2

\* the records and contents that are stored: a productive one, one of
\* courtesy with a file name, the emergency default, and one whose content
\* (602 characters) is longer than the history keeps
StoreSamples ==
    << [classification |-> PRODUCTIVE, confidence |-> 950, reply |-> ReplyUrgent,
        file_name |-> <<>>, content |-> <<"u","r","g","e","n","t","e"," ","o","i">>],
       [classification |-> UNPRODUCTIVE, confidence |-> 700, reply |-> ReplyThanks,
        file_name |-> <<"email.txt">>, content |-> <<"o","b","r","i","g","a","d","o"," ","o","i">>],
       [classification |-> UNPRODUCTIVE, confidence |-> 500, reply |-> ReplyEmergency,
        file_name |-> <<>>, content |-> <<"o","i">>],
       [classification |-> PRODUCTIVE, confidence |-> 650, reply |-> ReplyProductive,
        file_name |-> <<>>, content |-> Words(201)] >>

\* the samples the call that draws id may store
StoreInputs(id) ==
    IF id <= FreeStores THEN 1..Len(StoreSamples) ELSE {(id % 3) + 1}

\* the record of a call of the storage service or of the /history handler
StoreCall(op, args, r) ==
    [op |-> op, content |-> NotStr, file_name |-> <<>>, remote |-> NotCalled,
     r |-> r, path |-> "none", scores |-> NoScores, remote_calls |-> 0, args |-> args]

\* data_storage.store_analysis(analysis, content)
StoreAnalysis ==
    /\ next_id <= MaxStores
    /\ \E k \in StoreInputs(next_id) :
       \E sample \in {StoreSamples[k]} :
       \E analysis \in {EmailAnalysisResponse(next_id, sample.classification,
                                              sample.confidence, JStr(sample.reply),
                                              sample.file_name).value} :
       \E store \in {store_analysis([analyses |-> analyses, history |-> history,
                                     stats |-> stats], analysis, sample.content)} :
          /\ analyses' = store.analyses
          /\ history' = store.history
          /\ stats' = store.stats
          /\ stored' = Append(stored, [analysis |-> analysis, content |-> sample.content])
          /\ last' = StoreCall("store_analysis", <<analysis.id>>, Returned(<<>>))
    /\ next_id' = next_id + 1
    /\ UNCHANGED <<settings, is_available, requests>>

\* data_storage.clear_history()
ClearStore ==
    /\ \E store \in {clear_history([analyses |-> analyses, history |-> history,
                                    stats |-> stats])} :
          /\ analyses' = store.analyses
          /\ history' = store.history
          /\ stats' = store.stats
          /\ last' = StoreCall("clear_history", <<>>, Returned(store.r))
    /\ stored' = <<>>
    /\ UNCHANGED <<settings, is_available, next_id, requests>>

\* the limits and the filters of the queries
Limits == {0, 1, 50}

Filters == {<<>>, <<PRODUCTIVE>>, <<UNPRODUCTIVE>>}

\* endpoints.py, GET /history: the filtered or the unfiltered query
history_endpoint(items, limit, classification) ==
    IF classification # <<>>
    THEN Reversed(
             IF Len(get_analysis_by_classification(items, classification[1])) > limit
             THEN SliceFrom(get_analysis_by_classification(items, classification[1]), -limit)
             ELSE get_analysis_by_classification(items, classification[1]))
    ELSE get_history(items, limit)

GetHistory ==
    /\ \E limit \in Limits, classification \in Filters :
          last' = StoreCall("get_history", <<limit, classification>>,
                            Returned(history_endpoint(history, limit, classification)))
    /\ UNCHANGED <<settings, is_available, analyses, history, stats, next_id, requests,
                   stored>>

\* The storage service reads no setting: its calls are made in the process
\* that was configured without a credential.
InitStore == Init /\ settings = [openai_api_key |-> "", use_openai |-> FALSE]

\* the calls that change the store
NextStore == StoreAnalysis \/ ClearStore

SpecStore == InitStore /\ [][NextStore]_vars

\* the same calls, and the queries of GET /history between them
NextHistory == StoreAnalysis \/ ClearStore \/ GetHistory

SpecHistory == InitStore /\ [][NextHistory]_vars

(***************************************************************************)
(* FileProcessorService.truncate_text_for_analysis (file_processor.py),    *)
(* which POST /analyze/file applies to the extracted text; its result is   *)
(* the content the handler gives to classify_email and to store_analysis.  *)
(***************************************************************************)
\* settings.max_content_length
max_content_length == 10000

\* lines 112-122, with rfind(' ') of the first max_content_length characters
truncate_text_for_analysis(text) ==
    IF Len(text) <= max_content_length THEN text
    ELSE (IF LastSpace(text, max_content_length) * 10 > max_content_length * 8
          THEN SubSeq(text, 1, LastSpace(text, max_content_length))
          ELSE SubSeq(text, 1, max_content_length)) \o <<".", ".", ".">>

\* the greatest number of characters by which an extracted text exceeds the limit
MaxOver == 5

\* the lengths of the extracted texts: a short one, and those around the limit
UploadLengths == {10} \cup ((max_content_length - 1)..(max_content_length + MaxOver))

\* the places (indices from 0) where an extracted text may have a space:
\* around 0.8 * max_content_length, in the middle of the last fifth, and at
\* the end of the first max_content_length characters
SpacePlaces == {7999, 8000, 8001, 9000, 9996, 9997, 9998, 9999}

\* the text of len characters with spaces at the places of the set spaces
TextOf(len, spaces) == [i \in 1..len |-> IF (i - 1) \in spaces THEN " " ELSE "a"]

\* texts with at most two spaces
UploadTexts ==
    {TextOf(len, spaces) :
        len \in UploadLengths,
        spaces \in {S \in SUBSET SpacePlaces : Cardinality(S) <= 2}}

\* a direct call of truncate_text_for_analysis
TruncateText ==
    /\ last.op = "none"
    /\ \E text \in UploadTexts :
          last' = [op |-> "truncate_text_for_analysis", content |-> Str(text),
                   file_name |-> <<>>, remote |-> NotCalled,
                   r |-> Returned(truncate_text_for_analysis(text)),
                   path |-> "none", scores |-> NoScores, remote_calls |-> 0]
    /\ UNCHANGED <<settings, is_available, analyses, history, stats, next_id, requests,
                   stored>>

NextUpload == TruncateText

SpecUpload == Init /\ [][NextUpload]_vars

(***************************************************************************)
(* Properties of classify_email.  last is the latest call: its arguments,  *)
(* the answer of the remote service when it was asked, what the call       *)
(* returned, and the scoring path that produced it.                        *)
(***************************************************************************)
\* the record the latest call returned
Result == last.r.value

Called == last.op \in {"classify_local", "classify_openai"}

\* the remote service was asked and answered with a JSON object
RemoteObject == last.remote_calls = 1 /\ last.remote.kind = "json"

\* a record with the fields of the emergency default
IsEmergencyDefault(record, file_name) ==
    /\ record.classification = UNPRODUCTIVE
    /\ record.confidence = 500
    /\ record.suggested_response = ReplyEmergency
    /\ record.file_name = file_name

\* C1: classify never fails.  For every content, every file name and every
\* outcome of the remote call (transport failure, a body that is no JSON, a
\* missing key, an invalid classification, any value of a field), each of
\* the two classify_email methods returns a record and raises nothing.
C1_NeverFails == Called => ~last.r.raised

\* the fallback itself failed after a transport failure, and a record came back
C1_Witness ==
    /\ last.op = "classify_openai"
    /\ last.remote_calls = 1
    /\ last.remote.kind = "transport_error"
    /\ ~last.content.str
    /\ ~last.r.raised

\* C2: on every path (remote, simplified heuristic, rule-based scorer,
\* emergency) the returned record has a confidence in [0.5, 1.0] and a
\* classification that is PRODUCTIVE or UNPRODUCTIVE.
C2_WellFormed ==
    (Called /\ ~last.r.raised) =>
        /\ last.path \in {"remote", "simplified", "rule_based", "emergency"}
        /\ Result.confidence \in 500..1000
        /\ Result.classification \in {PRODUCTIVE, UNPRODUCTIVE}

\* a remote confidence of 0.3 came back as 0.5
C2_Witness ==
    /\ last.op = "classify_openai"
    /\ last.path = "remote"
    /\ last.remote.obj["confidence"] = JNum(300)
    /\ Result.confidence = 500

\* the remote path is not configured or not enabled
NotConfigured ==
    settings.openai_api_key = "" \/ ~is_available \/ ~settings.use_openai

\* the record of the full rule-based scorer for the latest call
RuleBasedRecord ==
    EmailClassifierService_classify_email(last.content, last.file_name, Result.id).r

\* the record of the simplified heuristic for the latest call
SimplifiedRecord ==
    ToResponse(generate_fallback_response(last.content), Result.id, last.file_name)

\* C3 as stated: whenever the remote path is not configured or not enabled
\* (no credential, adapter unavailable, or the flag false) the request is
\* answered by the full rule-based scorer, never by the simplified heuristic.
C3_AsStated ==
    (last.op = "analyze" /\ NotConfigured) =>
        /\ last.path = "rule_based"
        /\ last.r = RuleBasedRecord

\* C3: a request to /analyze is answered by the full rule-based scorer when
\* the credential is absent or the flag is false; when the credential is
\* present, the flag is true and the adapter is unavailable, it is answered
\* by the simplified heuristic, without a remote call.
C3_Routing ==
    last.op = "analyze" =>
        /\ (settings.openai_api_key = "" \/ ~settings.use_openai) =>
              /\ last.path = "rule_based"
              /\ last.remote_calls = 0
              /\ last.r = RuleBasedRecord
              /\ Result.confidence <= 950
        /\ (settings.openai_api_key # "" /\ settings.use_openai /\ ~is_available) =>
              /\ last.path = "simplified"
              /\ last.remote_calls = 0
              /\ last.r = SimplifiedRecord

\* the adapter is unavailable with a credential, and the simplified
\* heuristic answered where the rule-based scorer answers otherwise
C3_Witness ==
    /\ last.op = "analyze"
    /\ settings.openai_api_key # "" /\ settings.use_openai /\ ~is_available
    /\ last.path = "simplified"
    /\ last.r # RuleBasedRecord

\* the remote attempt failed in one of the ways C4 names
RemoteAttemptFailed ==
    /\ last.remote_calls = 1
    /\ \/ last.remote.kind \in {"transport_error", "not_json"}
       \/ /\ last.remote.kind = "json"
          /\ \/ ~(required_keys \subseteq DOMAIN last.remote.obj)
             \/ last.remote.obj["classification"]
                    \notin {JStr("productive"), JStr("unproductive")}

\* the scores of the simplified heuristic on the content of the latest call
SimplifiedProductive ==
    Hits(Lower(last.content.text), productive_indicators)
        + (IF Contains(last.content.text, <<"?">>) THEN 2 ELSE 0)

SimplifiedUnproductive == Hits(Lower(last.content.text), unproductive_indicators)

\* C4: when the remote path is configured and enabled and the attempt fails
\* (transport error, no JSON, a missing required key, a classification that
\* is neither "productive" nor "unproductive"), classify_email on a text
\* returns the record of the simplified heuristic: indicator hits, +2 for a
\* question mark, ties unproductive, confidence 0.6 + 0.05 per point capped
\* at 0.85, one of two fixed replies; nothing of the remote answer is in it.
C4_RemoteFailure ==
    (last.op = "classify_openai" /\ last.content.str /\ RemoteAttemptFailed) =>
        /\ ~last.r.raised
        /\ last.path = "simplified"
        /\ Result.classification =
              (IF SimplifiedProductive > SimplifiedUnproductive
               THEN PRODUCTIVE ELSE UNPRODUCTIVE)
        /\ Result.confidence =
              (IF SimplifiedProductive > SimplifiedUnproductive
               THEN Min(850, 600 + 50 * (SimplifiedProductive - SimplifiedUnproductive))
               ELSE Min(850, 600 + 50 * (SimplifiedUnproductive - SimplifiedProductive)))
        /\ Result.suggested_response =
              (IF SimplifiedProductive > SimplifiedUnproductive
               THEN ReplyFallbackProductive ELSE ReplyUnproductive)
        /\ Result.suggested_response # RemoteReply
        /\ Result.file_name = last.file_name

\* the remote answer named an unknown classification with a usable reply,
\* and the question mark of the content made the result productive
C4_Witness ==
    /\ last.op = "classify_openai"
    /\ last.content.str
    /\ RemoteAttemptFailed
    /\ last.remote.kind = "json"
    /\ required_keys \subseteq DOMAIN last.remote.obj
    /\ last.remote.obj["classification"] = JStr("spam")
    /\ last.remote.obj["suggested_response"] = JStr(RemoteReply)
    /\ Contains(last.content.text, <<"?">>)
    /\ Result.classification = PRODUCTIVE
    /\ Result.confidence = 750

\* an unexpected failure inside the latest call: the content is no text where
\* a local scorer needs one, or the accepted remote answer has a reply that
\* the record does not take
UnexpectedFailure ==
    \/ last.op = "classify_local" /\ ~last.content.str
    \/ /\ last.op = "classify_openai"
       /\ ~last.content.str
       /\ (last.remote_calls = 0 \/ classify_with_openai(last.remote).raised)
    \/ /\ last.op = "classify_openai"
       /\ last.remote_calls = 1
       /\ ~classify_with_openai(last.remote).raised
       /\ last.remote.obj["suggested_response"].type # "string"

\* C5: when an unexpected failure occurs inside classify_email (in the
\* rule-based path, in the fallback, or while the record is built), the
\* returned record is the emergency default: UNPRODUCTIVE, confidence 0.5,
\* the fixed reply, and the file name the caller gave.
C5_EmergencyDefault ==
    (Called /\ (UnexpectedFailure \/ last.path = "emergency")) =>
        /\ ~last.r.raised
        /\ last.path = "emergency"
        /\ UnexpectedFailure
        /\ IsEmergencyDefault(Result, last.file_name)

\* the rule-based service failed on its content and kept the file name
C5_Witness ==
    /\ last.op = "classify_local"
    /\ ~last.content.str
    /\ last.file_name = <<"email.txt">>
    /\ last.path = "emergency"
    /\ Result.file_name = <<"email.txt">>

\* the remote answer has the four keys, a valid classification and a
\* numeric confidence outside [0.5, 1.0]
RemoteOutOfRange ==
    /\ last.op = "classify_openai"
    /\ RemoteObject
    /\ required_keys \subseteq DOMAIN last.remote.obj
    /\ last.remote.obj["classification"] \in {JStr("productive"), JStr("unproductive")}
    /\ last.remote.obj["confidence"].type = "number"
    /\ last.remote.obj["confidence"].n \notin 500..1000

\* the record carries the remote classification and reply, with the remote
\* confidence moved to the nearer end of [0.5, 1.0]
ClampedRemoteRecord ==
    /\ ~last.r.raised
    /\ last.path = "remote"
    /\ Result.classification = last.remote.obj["classification"].s
    /\ Result.suggested_response = last.remote.obj["suggested_response"].s
    /\ Result.confidence =
          (IF last.remote.obj["confidence"].n > 1000 THEN 1000 ELSE 500)

\* C6 as stated: a remote answer with the four keys, a valid classification
\* and a confidence outside [0.5, 1.0] is returned with the confidence
\* clamped; no fallback or emergency record is produced.
C6_AsStated == RemoteOutOfRange => ClampedRemoteRecord

\* C6: a remote answer with the four keys, a valid classification, a
\* confidence outside [0.5, 1.0] and a reply that is a string is returned
\* with its classification and reply and the confidence clamped (1.0 above,
\* 0.5 below); when the reply is no string the record is the emergency
\* default.
C6_Clamped ==
    /\ (RemoteOutOfRange /\ last.remote.obj["suggested_response"].type = "string")
          => ClampedRemoteRecord
    /\ (RemoteOutOfRange /\ last.remote.obj["suggested_response"].type # "string")
          => (~last.r.raised /\ IsEmergencyDefault(Result, last.file_name))

\* productive with 1.4 came back productive with 1.0 and the remote reply
C6_Witness ==
    /\ RemoteOutOfRange
    /\ last.remote.obj["classification"] = JStr("productive")
    /\ last.remote.obj["confidence"] = JNum(1400)
    /\ last.remote.obj["suggested_response"] = JStr(RemoteReply)
    /\ Result.classification = PRODUCTIVE
    /\ Result.confidence = 1000
    /\ Result.suggested_response = RemoteReply

\* the rule-based scorer met balanced totals
Tie ==
    /\ last.op = "classify_local"
    /\ last.path = "rule_based"
    /\ last.scores.total_productive = last.scores.total_unproductive

EmptyText == last.op = "classify_local" /\ last.content = Str(<<>>)

\* C7 as stated: a text with balanced totals, the empty string being one,
\* is UNPRODUCTIVE with confidence 0.5.
C7_AsStated ==
    /\ Tie => (Result.classification = UNPRODUCTIVE /\ Result.confidence = 500)
    /\ EmptyText => Tie

\* C7: a text with balanced totals is UNPRODUCTIVE with confidence 0.6.  The
\* empty string is not balanced: its productive total is -1 (fewer than 20
\* words) against 0, and it is UNPRODUCTIVE with confidence 0.65.
C7_TieBreak ==
    /\ Tie => (Result.classification = UNPRODUCTIVE /\ Result.confidence = 600)
    /\ EmptyText =>
          /\ last.scores.total_productive = -1
          /\ last.scores.total_unproductive = 0
          /\ Result.classification = UNPRODUCTIVE
          /\ Result.confidence = 650

\* balanced totals that are not zero
C7_Witness ==
    /\ Tie
    /\ last.scores.keyword_productive > 0
    /\ last.scores.total_unproductive > 0
    /\ Result.confidence = 600

\* the text is one keyword of the urgency category and nothing else
SingleUrgencyKeyword ==
    /\ last.op = "classify_local"
    /\ last.content.str
    /\ productive_keywords[2].category = "urgency"
    /\ \E k \in 1..Len(productive_keywords[2].keywords) :
          last.content.text = productive_keywords[2].keywords[k]

\* C8 as stated: one urgency keyword alone gives productive_total = 3 and a
\* PRODUCTIVE result with confidence 0.75.
C8_AsStated ==
    SingleUrgencyKeyword =>
        /\ last.scores.total_productive = 3
        /\ Result.classification = PRODUCTIVE
        /\ Result.confidence = 750

\* C8: one urgency keyword alone scores 3 on the keywords and -1 on the
\* structure and is PRODUCTIVE.  The keywords of the urgency pattern
\* (urgente, importante, prioridade, deadline, prazo) score 2 more:
\* productive_total = 4, confidence 0.80.  "imediato" is in no pattern:
\* productive_total = 2, confidence 0.70.
C8_SingleUrgency ==
    SingleUrgencyKeyword =>
        /\ last.scores.keyword_productive = 3
        /\ last.scores.keyword_unproductive = 0
        /\ last.scores.structure_score = -1
        /\ Result.classification = PRODUCTIVE
        /\ IF last.content.text = <<"i","m","e","d","i","a","t","o">>
           THEN /\ last.scores.pattern_productive = 0
                /\ last.scores.total_productive = 2
                /\ Result.confidence = 700
           ELSE /\ last.scores.pattern_productive = 2
                /\ last.scores.total_productive = 4
                /\ Result.confidence = 800

\* "prazo" alone
C8_Witness ==
    /\ SingleUrgencyKeyword
    /\ last.content.text = <<"p","r","a","z","o">>
    /\ last.scores.total_productive = 4
    /\ Result.confidence = 800

\* the largest total of the decision table of C9
MaxScore == 12

\* C9: the classification is PRODUCTIVE iff productive_total >
\* unproductive_total and UNPRODUCTIVE otherwise, ties included, where
\* productive_total = keyword_productive + pattern_productive + structural
\* and structural may be negative: for the scores of every call of the
\* rule-based scorer, and for every pair of totals up to MaxScore.
C9_DecisionRule ==
    /\ (last.op = "classify_local" /\ last.path = "rule_based") =>
          /\ last.scores.total_productive =
                last.scores.keyword_productive + last.scores.pattern_productive
                    + last.scores.structure_score
          /\ Result.classification \in {PRODUCTIVE, UNPRODUCTIVE}
          /\ Result.classification = PRODUCTIVE
                <=> last.scores.total_productive > last.scores.total_unproductive
    /\ \A total_productive \in (-1)..MaxScore, total_unproductive \in 0..MaxScore :
          /\ Decide(total_productive, total_unproductive).classification
                \in {PRODUCTIVE, UNPRODUCTIVE}
          /\ Decide(total_productive, total_unproductive).classification = PRODUCTIVE
                <=> total_productive > total_unproductive

\* keywords and patterns lead by one, the negative structural score makes
\* the totals equal, and the result is UNPRODUCTIVE
C9_Witness ==
    /\ last.op = "classify_local"
    /\ last.path = "rule_based"
    /\ last.scores.structure_score < 0
    /\ last.scores.keyword_productive + last.scores.pattern_productive
          = last.scores.total_unproductive + 1
    /\ Result.classification = UNPRODUCTIVE

\* classification, confidence and reply of a record
Triple(record) ==
    <<record.classification, record.confidence, record.suggested_response>>

\* the triple of the remote answer of the latest call
RemoteTriple ==
    <<last.remote.obj["classification"].s,
      Round2(Max(500, Min(1000, last.remote.obj["confidence"].n))),
      last.remote.obj["suggested_response"].s>>

\* C10: classification, confidence and reply of a returned record come
\* together from the one scoring path of the call (remote, simplified,
\* rule-based or emergency), a remote call was made only on the paths that
\* have one, and the stored record and the history item have the fields
\* the record was returned with.
C10_OnePath ==
    (last.op = "analyze" /\ ~last.r.raised) =>
        /\ last.path \in {"remote", "simplified", "rule_based", "emergency"}
        /\ last.path = "remote" =>
              (RemoteObject /\ Triple(Result) = RemoteTriple)
        /\ last.path = "simplified" => Triple(Result) = Triple(SimplifiedRecord.value)
        /\ last.path = "rule_based" =>
              (last.remote_calls = 0 /\ Triple(Result) = Triple(RuleBasedRecord.value))
        /\ last.path = "emergency" =>
              Triple(Result) = <<UNPRODUCTIVE, 500, ReplyEmergency>>
        /\ Result.id \in DOMAIN analyses
        /\ analyses[Result.id] = Result
        /\ Len(history) >= 1
        /\ history[Len(history)].id = Result.id
        /\ Triple(history[Len(history)]) = Triple(Result)
        /\ history[Len(history)].file_name = Result.file_name

\* a failed remote call with a usable remote answer before it: the second
\* request fell back to the simplified heuristic and both records are stored
C10_Witness ==
    /\ last.op = "analyze"
    /\ last.path = "simplified"
    /\ last.remote_calls = 1
    /\ Len(history) = 2
    /\ history[1].suggested_response = RemoteReply
    /\ analyses[Result.id] = Result

\* C11: in a classify call the remote service is called at most once, and
\* only when the adapter was constructed available (credential present and
\* client initialised) and the flag is true; construction without a
\* credential or with a failing client leaves the adapter unavailable; a
\* failed remote call is not repeated within the call.
C11_RemoteCalls ==
    /\ is_available => settings.openai_api_key # ""
    /\ is_available \in
          {OpenAIEmailClassifierService_init(settings.openai_api_key, client_ok) :
              client_ok \in BOOLEAN}
    /\ ~OpenAIEmailClassifierService_init("", TRUE)
    /\ ~OpenAIEmailClassifierService_init("sk-key", FALSE)
    /\ last.remote_calls \in {0, 1}
    /\ last.remote_calls = 1 =>
          /\ last.op = "classify_openai"
          /\ is_available
          /\ settings.openai_api_key # ""
          /\ settings.use_openai
    /\ (Called /\ last.remote_calls = 1 /\ classify_with_openai(last.remote).raised) =>
          last.path \in {"simplified", "emergency"}

\* the client failed to initialise with a credential and the flag true, and
\* the call was answered without a remote call
C11_Witness ==
    /\ last.op = "classify_openai"
    /\ settings.openai_api_key # ""
    /\ settings.use_openai
    /\ ~is_available
    /\ last.remote_calls = 0
    /\ last.remote = NotCalled
    /\ ~last.r.raised

\* C12: one request's remote call does not block another request of the
\* same process: while a request waits for its remote call to return, the
\* handler of a request that has arrived can start.
C12_NonBlocking ==
    \A q1 \in RequestIds, q2 \in RequestIds :
        (requests[q1].phase = "remote" /\ requests[q2].phase = "arrived")
            => ENABLED Start(q2)

\* classification and confidence of a record
Pair(record) == <<record.classification, record.confidence>>

\* request q was answered by a local scorer
LocallyScored(q) ==
    /\ requests[q].phase = "done"
    /\ ~requests[q].r.raised
    /\ requests[q].path \in {"rule_based", "simplified"}

\* the pair a local scorer computes from a content alone
RuleBasedPair(content) ==
    LET sc == Scores(content)
        d == Decide(sc.total_productive, sc.total_unproductive)
    IN  <<d.classification, Round2(d.confidence)>>

SimplifiedPair(content) ==
    LET result == generate_fallback_response(Str(content)).value
    IN  <<result.classification, Round2(result.confidence)>>

LocalReplies ==
    {ReplyUrgent, ReplyMeeting, ReplyQuestion, ReplyProblem, ReplyProductive,
     ReplyThanks, ReplyCongratulation, ReplyInformation, ReplyUnproductive,
     ReplyFallbackProductive, ReplyEmergency}

\* C14 as stated: every returned record has a non-empty suggested_response,
\* on every path, the remote success path with an empty remote reply
\* included.
C14_AsStated == (Called /\ ~last.r.raised) => Result.suggested_response # ""

\* C14: on the local paths (rule-based, simplified, emergency) the
\* suggested_response is one of the fixed non-empty replies; on the remote
\* success path it is the string of the remote answer as it came, which is
\* empty when the remote answer's is.
C14_Reply ==
    /\ "" \notin LocalReplies
    /\ (Called /\ ~last.r.raised) =>
          /\ last.path \in {"rule_based", "simplified", "emergency"} =>
                Result.suggested_response \in LocalReplies
          /\ last.path = "remote" =>
                /\ last.remote.obj["suggested_response"].type = "string"
                /\ Result.suggested_response = last.remote.obj["suggested_response"].s

\* a valid remote answer with an empty reply was returned with it
C14_Witness ==
    /\ last.op = "classify_openai"
    /\ last.path = "remote"
    /\ last.remote.obj["suggested_response"] = JStr("")
    /\ ~last.r.raised
    /\ Result.suggested_response = ""

\* C15: the file name the caller gave, or its absence, is the file name of
\* the returned record on every path: remote, simplified, rule-based and
\* emergency.
C15_FileName ==
    (Called /\ ~last.r.raised) =>
        /\ last.file_name \in FileNames
        /\ Result.file_name = last.file_name

\* a named file on the remote success path
C15_Witness ==
    /\ last.op = "classify_openai"
    /\ last.path = "remote"
    /\ last.file_name = <<"email.txt">>
    /\ ~last.r.raised
    /\ Result.file_name = <<"email.txt">>

\* the scenario text was classified without a remote result
ScenarioLocal ==
    /\ Called
    /\ last.content = Str(ScenarioText)
    /\ ~last.r.raised
    /\ last.path \in {"rule_based", "simplified"}

\* C16 as stated: "Preciso que você aprove o orçamento até amanhã,
\* urgente!" is PRODUCTIVE with confidence >= 0.75 on whichever local path
\* handles it, the rule-based scorer or the simplified heuristic.
C16_AsStated ==
    ScenarioLocal =>
        (Result.classification = PRODUCTIVE /\ Result.confidence >= 750)

\* C16: the scenario text is PRODUCTIVE on both local paths.  The rule-based
\* scorer gives confidence 0.95 (keywords 6, patterns 4, structure -1); the
\* simplified heuristic finds two indicator words and gives 0.70.
C16_Scenario ==
    ScenarioLocal =>
        /\ Result.classification = PRODUCTIVE
        /\ last.path = "rule_based" =>
              /\ last.scores.keyword_productive = 6
              /\ last.scores.pattern_productive = 4
              /\ last.scores.structure_score = -1
              /\ last.scores.total_unproductive = 0
              /\ Result.confidence = 950
        /\ last.path = "simplified" =>
              /\ SimplifiedProductive = 2
              /\ SimplifiedUnproductive = 0
              /\ Result.confidence = 700

\* the remote call failed on the scenario text and the simplified heuristic
\* answered below 0.75
C16_Witness ==
    /\ ScenarioLocal
    /\ last.op = "classify_openai"
    /\ last.remote_calls = 1
    /\ last.path = "simplified"
    /\ Result.classification = PRODUCTIVE
    /\ Result.confidence < 750

\* the pattern scores of the latest call of the rule-based scorer
PatternScores ==
    [productive |-> last.scores.pattern_productive,
     unproductive |-> last.scores.pattern_unproductive]

RuleBasedCall == last.op = "classify_local" /\ last.path = "rule_based"

\* C17 as stated: the pattern score is computed from the caller's original
\* text, so that punctuation which normalization replaces by spaces neither
\* creates nor removes a match.
C17_AsStated ==
    RuleBasedCall => PatternScores = calculate_pattern_score(last.content.text)

\* C17: the pattern score is computed from the normalized text (lower case,
\* every character other than a word character, whitespace, "?" and "!"
\* replaced by a space, whitespace collapsed and stripped).  Punctuation
\* that becomes a space can create a match: "pode, oi" scores 2 although
\* no regex matches the original.
C17_PatternsOfNormalized ==
    /\ RuleBasedCall =>
          PatternScores = calculate_pattern_score(preprocess_text(last.content.text))
    /\ (RuleBasedCall /\ last.content.text = PunctuatedText) =>
          /\ preprocess_text(PunctuatedText) = <<"p","o","d","e"," ","o","i">>
          /\ last.scores.pattern_productive = 2
          /\ calculate_pattern_score(PunctuatedText).productive = 0

\* "pode, oi" was scored
C17_Witness ==
    /\ RuleBasedCall
    /\ last.content.text = PunctuatedText
    /\ last.scores.pattern_productive = 2
    /\ ~last.r.raised

\* the totals of given scores with unproductive pattern score pu
TotalsOf(kp, ku, pp, pu, st) ==
    Totals([productive |-> kp, unproductive |-> ku],
           [productive |-> pp, unproductive |-> pu], st)

\* C18: the unproductive pattern score does not influence the outcome.
\* unproductive_total is keyword_unproductive alone, classification and
\* confidence of a call are determined by the keyword scores, the
\* productive pattern score and the structural score, and totals that
\* differ only in the unproductive pattern score are the same.
C18_UnproductivePatternsUnused ==
    /\ RuleBasedCall =>
          /\ last.scores.total_unproductive = last.scores.keyword_unproductive
          /\ Pair(Result) =
                <<Decide(last.scores.keyword_productive + last.scores.pattern_productive
                            + last.scores.structure_score,
                         last.scores.keyword_unproductive).classification,
                  Round2(Decide(last.scores.keyword_productive
                                    + last.scores.pattern_productive
                                    + last.scores.structure_score,
                                last.scores.keyword_unproductive).confidence)>>
    /\ \A kp \in {0, 3}, ku \in {0, 3}, pp \in {0, 2}, st \in {-1, 1}, pu \in 0..MaxScore :
          /\ TotalsOf(kp, ku, pp, pu, st).total_productive
                = TotalsOf(kp, ku, pp, 0, st).total_productive
          /\ TotalsOf(kp, ku, pp, pu, st).total_unproductive
                = TotalsOf(kp, ku, pp, 0, st).total_unproductive

\* a productive result that the unproductive pattern score would have turned
C18_Witness ==
    /\ RuleBasedCall
    /\ last.scores.pattern_unproductive > 0
    /\ last.scores.total_productive
          <= last.scores.keyword_unproductive + last.scores.pattern_unproductive
    /\ Result.classification = PRODUCTIVE

\* the content of the latest call has a word of the list
Signal(words) == AnyIn(Lower(last.content.text), words)

\* C19: _generate_response returns the template of the first matching
\* branch, on the lower-cased original content: for PRODUCTIVE urgency,
\* then meeting, then question word or "?", then problem, then the generic
\* reply; for UNPRODUCTIVE gratitude, then congratulation, then information,
\* then the generic reply; never a template of the other class.
C19_Priority ==
    (last.op = "generate_response") =>
        LET reply == Result.suggested_response
            urgency == Signal(UrgencyWords)
            meeting == Signal(MeetingWords)
            question == Signal(QuestionWords)
            problem == Signal(ProblemWords)
            gratitude == Signal(GratitudeWords)
            congratulation == Signal(CongratulationWords)
            information == Signal(InformationWords)
        IN  /\ Result.classification = PRODUCTIVE =>
                  /\ reply \in {ReplyUrgent, ReplyMeeting, ReplyQuestion, ReplyProblem,
                                ReplyProductive}
                  /\ reply = ReplyUrgent <=> urgency
                  /\ reply = ReplyMeeting <=> (meeting /\ ~urgency)
                  /\ reply = ReplyQuestion <=> (question /\ ~meeting /\ ~urgency)
                  /\ reply = ReplyProblem <=>
                        (problem /\ ~question /\ ~meeting /\ ~urgency)
                  /\ reply = ReplyProductive <=>
                        (~problem /\ ~question /\ ~meeting /\ ~urgency)
            /\ Result.classification = UNPRODUCTIVE =>
                  /\ reply \in {ReplyThanks, ReplyCongratulation, ReplyInformation,
                                ReplyUnproductive}
                  /\ reply = ReplyThanks <=> gratitude
                  /\ reply = ReplyCongratulation <=> (congratulation /\ ~gratitude)
                  /\ reply = ReplyInformation <=>
                        (information /\ ~congratulation /\ ~gratitude)
                  /\ reply = ReplyUnproductive <=>
                        (~information /\ ~congratulation /\ ~gratitude)

\* every signal is present, the upper-case urgency word last in the text,
\* and the productive reply is the urgent one
C19_Witness ==
    /\ last.op = "generate_response"
    /\ last.content.text = SignalText(1..Len(SignalWords), 1)
    /\ Result.classification = PRODUCTIVE
    /\ Result.suggested_response = ReplyUrgent

\* |a - b|
AbsDiff(a, b) == IF a >= b THEN a - b ELSE b - a

\* min(0.95, 0.6 + 0.05 * d) floored at 0.5, in thousandths
ExpectedConfidence(d) == Max(500, Min(950, 600 + 50 * d))

\* C20: the confidence of the rule-based scorer is min(0.95, 0.6 + 0.05 *
\* |productive_total - unproductive_total|) floored at 0.5, for every pair
\* of totals; it never exceeds 0.95 and grows with the absolute difference,
\* by 0.05 per point, until the cap.
C20_Confidence ==
    /\ \A total_productive \in (-1)..MaxScore, total_unproductive \in 0..MaxScore :
          /\ Decide(total_productive, total_unproductive).confidence
                = ExpectedConfidence(AbsDiff(total_productive, total_unproductive))
          /\ Decide(total_productive, total_unproductive).confidence \in 500..950
    /\ \A d \in 0..MaxScore :
          /\ Confidence(d) <= Confidence(d + 1)
          /\ Confidence(d + 1) < 950 => Confidence(d + 1) = Confidence(d) + 50
          /\ Confidence(d) = 950 => Confidence(d + 1) = 950
    /\ RuleBasedCall =>
          /\ Result.confidence
                = ExpectedConfidence(AbsDiff(last.scores.total_productive,
                                             last.scores.total_unproductive))
          /\ Result.confidence <= 950

\* a difference of more than 7 points at the cap
C20_Witness ==
    /\ RuleBasedCall
    /\ last.scores.total_productive - last.scores.total_unproductive > 7
    /\ Result.confidence = 950

(***************************************************************************)
(* Properties of the DataStorageService.  stored holds the calls of        *)
(* store_analysis since the latest clear, the oldest first.                *)
(***************************************************************************)
\* the result a history item was built from
ResultOf(item) ==
    [id |-> item.id, classification |-> item.classification,
     confidence |-> item.confidence, suggested_response |-> item.suggested_response,
     file_name |-> item.file_name]

\* the items are the results of the latest calls, the most recent first
MostRecentFirst(items) ==
    \A i \in 1..Len(items) :
        ResultOf(items[i]) = stored[Len(stored) + 1 - i].analysis

\* C21: after any sequence of store and clear operations the history holds
\* at most 100 items; they are the most recent min(n, 100) results stored
\* since the last clear, in insertion order; and get_history returns them
\* most recent first (all of them when the limit is not below their number,
\* the latest `limit` of them otherwise).
C21_HistoryCap ==
    /\ Len(history) = Min(Len(stored), 100)
    /\ \A i \in 1..Len(history) :
          ResultOf(history[i]) = stored[Len(stored) - Len(history) + i].analysis
    /\ \A limit \in {1, 50, 100, 101} :
          /\ Len(get_history(history, limit)) = Min(limit, Len(history))
          /\ MostRecentFirst(get_history(history, limit))

\* the store was cleared and then filled past the limit of its history: the
\* two oldest of the 102 results are gone, the query returns the latest 50
C21_Witness ==
    /\ Len(stored) = 102
    /\ stored[1].analysis.id = 2
    /\ history[1].id = 4
    /\ Len(get_history(history, 50)) = 50
    /\ get_history(history, 50)[1].id = 103

\* the ids drawn so far
DrawnIds == 1..(next_id - 1)

\* the ids of the results stored since the latest clear
StoredIds == {stored[i].analysis.id : i \in 1..Len(stored)}

\* the number of results of a class stored since the latest clear
StoredOf(classification) ==
    Cardinality({i \in 1..Len(stored) : stored[i].analysis.classification = classification})

\* C22: clear_history returns true and resets the store completely:
\* get_analysis returns nothing for every id stored before it, the history
\* is empty and the statistics report 0 for total_processed,
\* productive_count, unproductive_count and average_confidence; the results
\* stored afterwards are counted from zero, and the results stored before
\* the clear stay unknown.
C22_ClearResets ==
    /\ last.op = "clear_history"
          => /\ last.r = Returned(TRUE)
             /\ \A id \in DrawnIds : get_analysis(analyses, id) = <<>>
             /\ history = <<>>
             /\ get_history(history, 50) = <<>>
             /\ get_stats(stats) =
                    [total_processed |-> 0, productive_count |-> 0,
                     unproductive_count |-> 0, average_confidence |-> 0]
    /\ get_stats(stats).total_processed = Len(stored)
    /\ get_stats(stats).productive_count = StoredOf(PRODUCTIVE)
    /\ get_stats(stats).unproductive_count = StoredOf(UNPRODUCTIVE)
    /\ Len(stored) = 1 => get_stats(stats).average_confidence = stored[1].analysis.confidence
    /\ \A id \in DrawnIds : get_analysis(analyses, id) # <<>> <=> id \in StoredIds

\* two results were stored, the store was cleared, and one more was stored
C22_Witness ==
    /\ Len(stored) = 1
    /\ stored[1].analysis.id = 3
    /\ get_stats(stats).total_processed = 1
    /\ get_analysis(analyses, 1) = <<>>
    /\ get_analysis(analyses, 3) # <<>>

\* the ids of the items of the history
HistoryIds == {history[i].id : i \in 1..Len(history)}

\* C23: after any sequence of store and clear operations
\* productive_count + unproductive_count = total_processed = the number of
\* store calls since the last clear; the counters are not reduced when the
\* history evicts items beyond 100; and every stored result, also one whose
\* history item was evicted, is what get_analysis returns for its id.
C23_Counters ==
    /\ stats.productive_count + stats.unproductive_count = stats.total_processed
    /\ stats.total_processed = Len(stored)
    /\ stats.total_processed >= Len(history)
    /\ Len(stored) > 100 => Len(history) = 100
    /\ \A i \in 1..Len(stored) :
          get_analysis(analyses, stored[i].analysis.id) = <<stored[i].analysis>>

\* 102 results were stored since the latest clear: the history evicted the
\* items of the two oldest, the counters are 102 and the oldest result is
\* still retrievable
C23_Witness ==
    /\ Len(stored) = 102
    /\ Len(history) = 100
    /\ stored[1].analysis.id \notin HistoryIds
    /\ get_analysis(analyses, stored[1].analysis.id) = <<stored[1].analysis>>
    /\ get_stats(stats).total_processed = 102
    /\ stats.productive_count > 0 /\ stats.unproductive_count > 0

(***************************************************************************)
(* Properties of GET /history.  last is the latest query: its limit, its   *)
(* filter and the list it returned.                                         *)
(***************************************************************************)
\* the items are in the order of their ids, the latest (greatest) first
Descending(items) ==
    \A i \in 1..Len(items), j \in 1..Len(items) : i < j => items[i].id > items[j].id

\* C24: for every limit >= 0, limit = 0 included, and every state of the
\* history, the query returns at most `limit` items, unfiltered and filtered
\* by classification; the filtered query returns only items of the requested
\* classification; the items are returned most recent first.
C24_AtMostLimit ==
    last.op = "get_history"
        => /\ Len(last.r.value) <= last.args[1]
           /\ last.args[2] # <<>>
                 => \A i \in 1..Len(last.r.value) :
                        last.r.value[i].classification = last.args[2][1]
           /\ Descending(last.r.value)

(***************************************************************************)
(* Properties of truncate_text_for_analysis.  last is the latest call: the *)
(* extracted text and the text that is handed to the classifier.            *)
(***************************************************************************)
\* C25: the text handed to the classifier by the file-upload path never
\* exceeds max_content_length characters: a text of at most
\* max_content_length characters is returned unchanged, the result for a
\* longer one (the cut prefix and the appended "...") has at most
\* max_content_length characters, and truncating the result again gives the
\* same text.
C25_WithinLimit ==
    last.op = "truncate_text_for_analysis"
        => /\ Len(last.r.value) <= max_content_length
           /\ Len(last.content.text) <= max_content_length
                 => last.r.value = last.content.text
           /\ truncate_text_for_analysis(last.r.value) = last.r.value

(***************************************************************************)
(* The least confidence of the local paths.                                 *)
(***************************************************************************)
\* the difference of the totals that the branch taken by the rule-based
\* scorer uses
DifferenceUsed ==
    IF last.scores.total_productive > last.scores.total_unproductive
    THEN last.scores.total_productive - last.scores.total_unproductive
    ELSE last.scores.total_unproductive - last.scores.total_productive

\* C26: on both local scoring paths the confidence is never below 0.60: the
\* score difference used is never negative, so the floor of 0.5 is never the
\* binding term; a result with a confidence below 0.60 is the emergency
\* result (exactly 0.5) or comes from the remote path.
C26_LocalFloor ==
    /\ \A total_productive \in (-1)..MaxScore, total_unproductive \in 0..MaxScore :
          Decide(total_productive, total_unproductive).confidence >= 600
    /\ \A productive_score \in 0..MaxScore, unproductive_score \in 0..MaxScore :
          FallbackResult(productive_score, unproductive_score).confidence >= 600
    /\ Called
          => /\ last.path \in {"rule_based", "simplified"} => Result.confidence >= 600
             /\ last.path = "rule_based"
                   => /\ DifferenceUsed >= 0
                      /\ Result.confidence = Min(950, 600 + 50 * DifferenceUsed)
             /\ last.path = "emergency" => Result.confidence = 500
             /\ Result.confidence < 600
                   => \/ last.path = "emergency" /\ IsEmergencyDefault(Result, last.file_name)
                      \/ last.path = "remote"

\* the rule-based scorer on a text whose productive total is negative: the
\* difference used is 1 and the confidence 0.65
C26_Witness ==
    /\ last.op = "classify_local"
    /\ last.path = "rule_based"
    /\ last.scores.total_productive < 0
    /\ DifferenceUsed = 1
    /\ Result.confidence = 650

====
